---- MODULE Spec2Model ----
(***************************************************************************)
(* LogGrid (src/src/logGrid.js): a driver daily log grid.  The Grid object *)
(* owns `times`, an array of 96 duty values (one per quarter hour), and    *)
(* edits it from mouse gestures on its duty canvas: mousedown opens a drag *)
(* range, mousemove extends it, mouseup (or a mouseout near the right      *)
(* edge) writes the range into `times` and calls the onUpdate callback.    *)
(*                                                                         *)
(* Slots are numbered 0..95 as in the source; the TLA+ sequence `times`    *)
(* holds slot i at index i + 1.  Strings are sequences of one-character    *)
(* strings.  A JavaScript value stored in `times` keeps its type: the      *)
(* characters produced by split('') are strings, the duties written by a   *)
(* drag and the default fill are numbers.                                  *)
(***************************************************************************)
EXTENDS Integers, Sequences, FiniteSets, TLC

VARIABLES
    params,     \* the constructor's params: gridStr (absent or a string), readOnly
    times,      \* this.times
    readOnly,   \* this.readOnly
    mouseDown,  \* this.mouseDown
    drag,       \* this.drag: <<>> for {} or [range |-> [start, end], duty]
    listeners,  \* event types the duty canvas has a listener for
    callBacks,  \* number of calls of this.callBack so far
    commits,    \* number of completed saveDrag calls so far
    thrown,     \* the handler of the last event raised a TypeError
    event,      \* the last event dispatched: its type and the time/duty computed from it
    pressed,    \* <<m>>: the running gesture began in Idle with a mousedown at time/duty m
    seen        \* <<>> or what the last call of this.callBack could read of the grid

vars == <<params, times, readOnly, mouseDown, drag, listeners, callBacks,
          commits, thrown, event, pressed, seen>>

----------------------------------------------------------------------------
(* Bounds of the model *)

\* this.container.clientWidth and clientHeight: the size of the drawing surface
ClientWidth == 192
ClientHeight == 40

\* no new gesture is started once this many ranges have been committed
MaxCommits == 1

----------------------------------------------------------------------------
(* Program constants *)

\* quarter hours in a day: the length of a grid string and of times
NumSlots == 96

\* a mouseout with the range's end beyond this slot ends the drag
MouseoutEnd == 93

\* duty numbers, 1 (off), 2 (sleeper), 3 (drive), 4 (onduty)
NumDuties == 4

----------------------------------------------------------------------------
(* JavaScript values and strings *)

JSStr(c) == [type |-> "string", str |-> c, num |-> 0]
JSNum(n) == [type |-> "number", str |-> "", num |-> n]

DigitChars == <<"0", "1", "2", "3", "4", "5", "6", "7", "8", "9">>

\* String(v) for the values times can hold: a character is itself, a number
\* (of one digit here) is its digit
JSToString(v) == IF v.type = "string" THEN v.str ELSE DigitChars[v.num + 1]

\* n / d | 0 for integers n and d > 0: the quotient truncated towards zero
TruncDiv(n, d) == IF n >= 0 THEN n \div d ELSE -((-n) \div d)

Range(f) == { f[i] : i \in DOMAIN f }

\* the string made of pattern p repeated up to length n
Repeat(p, n) == [i \in 1..n |-> p[((i - 1) % Len(p)) + 1]]

----------------------------------------------------------------------------
(* Inputs *)

\* grid strings given to the constructor: periodic strings over the duty
\* characters and over characters that name no duty, of the valid length
\* and of other lengths
Patterns == { <<"1">>, <<"3", "1", "2", "4">>, <<"4", "4", "2">>, <<"x">>, <<"2", "0">> }
Lengths == {0, 1, 95, 96, 97}
GridStrs == { Repeat(p, n) : p \in Patterns, n \in Lengths }

\* params.gridStr is absent (<<>>) or a string (<<s>>); params.readOnly
ParamsSet == [gridStr : {<<>>} \cup { <<s>> : s \in GridStrs }, readOnly : BOOLEAN]

\* the params of the grids that are followed through their mouse gestures:
\* no grid string, and a valid one
GestureParams ==
    [gridStr : { <<>>, <<Repeat(<<"3", "1", "2", "4">>, 96)>> }, readOnly : BOOLEAN]

\* the pointer's position on the duty canvas, in pixels from its top left
\* corner (clientX, clientY less the container's offset, plus the scroll):
\* a column in the first hours and three columns at the right edge; the top
\* row (in the first duty's band) and a row in the middle of each other band
PointerXs == { ClientWidth \div 8, ClientWidth - 6, ClientWidth - 4, ClientWidth - 1 }
PointerYs == {0} \cup { ((2 * k + 1) * ClientHeight) \div 8 : k \in 1..3 }
MouseEvents == [x : PointerXs, y : PointerYs]

EventTypes == {"mousemove", "mousedown", "mouseup", "mouseout"}

----------------------------------------------------------------------------
(* The Grid object *)

\* var gridStr = params.gridStr || ''
gridStrOf(p) == IF p.gridStr = <<>> THEN <<>> ELSE p.gridStr[1]

\* the length of the string is not looked at
constructTimesArray_anyLength(str) ==
    IF str # <<>>
    THEN [i \in 1..Len(str) |-> JSStr(str[i])]
    ELSE [i \in 1..NumSlots |-> JSNum(1)]

\* the default is filled up to index 94 only
constructTimesArray_short(str) ==
    IF str # <<>> /\ Len(str) = NumSlots
    THEN [i \in 1..Len(str) |-> JSStr(str[i])]
    ELSE [i \in 1..(NumSlots - 1) |-> JSNum(1)]

\* a string of 96 characters is split into its characters, anything else
\* gives 96 times the number 1
constructTimesArray(str) ==
    IF str # <<>> /\ Len(str) = NumSlots
    THEN [i \in 1..Len(str) |-> JSStr(str[i])]
    ELSE [i \in 1..NumSlots |-> JSNum(1)]

\* this.times.join(''): the strings of the elements one after the other,
\* each of them one character
join(arr) == [i \in 1..Len(arr) |-> JSToString(arr[i])]

\* this.times.join(): the default separator, a comma, between the elements
toString_comma(t) ==
    [i \in 1..(2 * Len(t) - 1) |->
        IF i % 2 = 1 THEN JSToString(t[(i + 1) \div 2]) ELSE ","]

toString(t) == join(t)

\* 'off sleeper drive onduty'.split(' ')
types == <<"off", "sleeper", "drive", "onduty">>

\* str.match(new RegExp(duty, 'g')).length, 0 when there is no match: the
\* number of characters of str that are the digit of duty
matches(str, duty) == Cardinality({ i \in 1..Len(str) : str[i] = DigitChars[duty + 1] })

\* the duty of types[i] is taken to be i - 1, so 'off' counts the zeros
getHourTotals_dutyFromZero(t) ==
    IF Len(t) = 0 THEN <<>>
    ELSE LET str == toString(t)
         IN  [ty \in Range(types) |->
                matches(str, (CHOOSE i \in 1..Len(types) : types[i] = ty) - 1)]

\* false (<<>>) for an empty array, else for each type the number of its
\* duty's digits in toString().  An hour total is finds.length / 4: it is
\* held here in quarter hours, as finds.length, to stay within the integers
getHourTotals(t) ==
    IF Len(t) = 0 THEN <<>>
    ELSE LET str == toString(t)
         IN  [ty \in Range(types) |->
                matches(str, CHOOSE i \in 1..Len(types) : types[i] = ty)]

\* the listeners are added whether or not the grid is read only
constructCanvasListeners_always(ro) == EventTypes

\* constructCanvas: the four listeners are added unless the grid is read only
constructCanvasListeners(ro) == IF ~ro THEN EventTypes ELSE {}

\* constructCanvas: the callback is fired once unless the grid is read only
constructCanvasCallBacks(ro) == IF ~ro THEN 1 ELSE 0

\* the time is rounded to the nearest slot instead of cut off
getMouseTime_rounds(e) ==
    LET mx == e.x
        my == e.y - 1
    IN  [min |-> (2 * mx * NumSlots + ClientWidth) \div (2 * ClientWidth),
         duty |-> TruncDiv(my * NumDuties, ClientHeight) + 1]

\* the duty is the band's index from 0, without the + 1
getMouseTime_fromZero(e) ==
    LET mx == e.x
        my == e.y - 1
    IN  [min |-> TruncDiv(mx * NumSlots, ClientWidth),
         duty |-> TruncDiv(my * NumDuties, ClientHeight)]

\* mx / timeIncrmnt | 0 and (my / dutyIncrmnt | 0) + 1, where my is one
\* pixel above the pointer (the handler subtracts offset[1] + 1)
getMouseTime(e) ==
    LET mx == e.x
        my == e.y - 1
    IN  [min |-> TruncDiv(mx * NumSlots, ClientWidth),
         duty |-> TruncDiv(my * NumDuties, ClientHeight) + 1]

\* drawDutyStatusLine: x = i * hourInc with hourInc = width / 96, the left
\* edge of slot i; held as 96 * x, which is an integer for every width
slotToPixel96(i) == i * ClientWidth

\* the range is made anew by every call, losing the start of the gesture
updateDrag_newRange(d, m) ==
    [range |-> [start |-> m.min, end |-> m.min], duty |-> m.duty]

\* the duty is set with the range, by the first call only
updateDrag_firstDuty(d, m) ==
    IF "range" \in DOMAIN d
    THEN [range |-> [d.range EXCEPT !.end = m.min], duty |-> d.duty]
    ELSE [range |-> [start |-> m.min, end |-> m.min], duty |-> m.duty]

\* the range keeps its start when there is one, and gets m's time as its
\* end; the duty is m's
updateDrag(d, m) ==
    LET range == IF "range" \in DOMAIN d THEN d.range ELSE [start |-> m.min, end |-> m.min]
    IN  [range |-> [range EXCEPT !.end = m.min], duty |-> m.duty]

\* a range that ends before it starts is turned around and written too
saveDrag_turned(t, d) ==
    LET lo == IF d.range.start <= d.range.end THEN d.range.start ELSE d.range.end
        hi == IF d.range.start <= d.range.end THEN d.range.end ELSE d.range.start
    IN  [times |-> [k \in 1..Len(t) |->
                      IF lo <= k - 1 /\ k - 1 < hi THEN JSNum(d.duty) ELSE t[k]],
         drag |-> <<>>]

\* the loop runs to i <= end, writing the slot at the range's end too
saveDrag_inclusive(t, d) ==
    LET r == d.range
        len == IF r.start <= r.end /\ r.end + 1 > Len(t) THEN r.end + 1 ELSE Len(t)
    IN  [times |-> [k \in 1..len |->
                      IF r.start <= k - 1 /\ k - 1 <= r.end THEN JSNum(d.duty) ELSE t[k]],
         drag |-> <<>>]

\* the drag is not emptied after the range was written
saveDrag_keepsDrag(t, d) ==
    LET r == d.range
    IN  [times |-> [k \in 1..Len(t) |->
                      IF r.start <= k - 1 /\ k - 1 < r.end THEN JSNum(d.duty) ELSE t[k]],
         drag |-> d]

\* times[i] = duty for start <= i < end (an index past the end of the
\* array extends it), then the drag is emptied
saveDrag(t, d) ==
    LET r == d.range
        len == IF r.start < r.end /\ r.end > Len(t) THEN r.end ELSE Len(t)
    IN  [times |-> [k \in 1..len |->
                      IF r.start <= k - 1 /\ k - 1 < r.end THEN JSNum(d.duty) ELSE t[k]],
         drag |-> <<>>]

\* this.callBack(): it is given no argument and reads the grid as it is when
\* it is called: mouseDown, drag, toString() and getHourTotals()
callBack(md, d, t) ==
    <<[mouseDown |-> md, drag |-> d, str |-> toString(t), totals |-> getHourTotals(t)]>>

\* new Grid(container, params)
grid(p) ==
    /\ params = p
    /\ times = constructTimesArray(gridStrOf(p))
    /\ readOnly = p.readOnly
    /\ mouseDown = FALSE
    /\ drag = <<>>
    /\ listeners = constructCanvasListeners(p.readOnly)
    /\ callBacks = constructCanvasCallBacks(p.readOnly)
    /\ commits = 0
    /\ thrown = FALSE
    /\ event = [type |-> "none", m |-> <<>>]
    /\ pressed = <<>>
    /\ seen = IF ~p.readOnly
              THEN callBack(FALSE, <<>>, constructTimesArray(gridStrOf(p)))
              ELSE <<>>

Init == \E p \in GestureParams : grid(p)

mousedownHandler(e) ==
    /\ mouseDown' = TRUE
    /\ drag' = updateDrag(drag, getMouseTime(e))
    /\ thrown' = FALSE
    /\ UNCHANGED <<times, callBacks, commits, seen>>

\* the callback is fired before the drag is saved
mouseupOn_callBackFirst(d) ==
    /\ mouseDown' = FALSE
    /\ IF "range" \in DOMAIN d
       THEN LET saved == saveDrag(times, d)
            IN  /\ times' = saved.times
                /\ drag' = saved.drag
                /\ commits' = commits + 1
                /\ callBacks' = IF ~readOnly THEN callBacks + 1 ELSE callBacks
                /\ seen' = IF ~readOnly THEN callBack(FALSE, d, times) ELSE seen
                /\ thrown' = FALSE
       ELSE /\ thrown' = TRUE
            /\ drag' = d
            /\ UNCHANGED <<times, callBacks, commits, seen>>

\* mouseupHandler run on drag d: mouseDown is reset, saveDrag writes the
\* range and empties the drag, then the callback is fired; saveDrag raises a
\* TypeError when d has no range (r.start of undefined)
mouseupOn(d) ==
    /\ mouseDown' = FALSE
    /\ IF "range" \in DOMAIN d
       THEN LET saved == saveDrag(times, d)
            IN  /\ times' = saved.times
                /\ drag' = saved.drag
                /\ commits' = commits + 1
                /\ callBacks' = IF ~readOnly THEN callBacks + 1 ELSE callBacks
                /\ seen' = IF ~readOnly
                           THEN callBack(FALSE, saved.drag, saved.times)
                           ELSE seen
                /\ thrown' = FALSE
       ELSE /\ thrown' = TRUE
            /\ drag' = d
            /\ UNCHANGED <<times, callBacks, commits, seen>>

mouseupHandler == mouseupOn(drag)

\* the callback is fired by every move of a drag
mousemoveHandler_notifies(e) ==
    /\ IF ~mouseDown
       THEN UNCHANGED <<drag, callBacks>>
       ELSE /\ drag' = updateDrag(drag, getMouseTime(e))
            /\ callBacks' = callBacks + 1
    /\ thrown' = FALSE
    /\ UNCHANGED <<mouseDown, times, commits, seen>>

mousemoveHandler(e) ==
    /\ IF ~mouseDown
       THEN UNCHANGED drag
       ELSE drag' = updateDrag(drag, getMouseTime(e))
    /\ thrown' = FALSE
    /\ UNCHANGED <<mouseDown, times, callBacks, commits, seen>>

\* the range's end is left where the pointer was
mouseoutHandler_noSnap ==
    IF "range" \in DOMAIN drag /\ drag.range.end > MouseoutEnd
    THEN mouseupOn(drag)
    ELSE /\ thrown' = FALSE
         /\ UNCHANGED <<mouseDown, drag, times, callBacks, commits, seen>>

\* the drag is ended from slot 93 on
mouseoutHandler_from93 ==
    IF "range" \in DOMAIN drag /\ drag.range.end >= MouseoutEnd
    THEN mouseupOn([drag EXCEPT !.range.end = NumSlots])
    ELSE /\ thrown' = FALSE
         /\ UNCHANGED <<mouseDown, drag, times, callBacks, commits, seen>>

mouseoutHandler ==
    IF "range" \in DOMAIN drag /\ drag.range.end > MouseoutEnd
    THEN mouseupOn([drag EXCEPT !.range.end = NumSlots])
    ELSE /\ thrown' = FALSE
         /\ UNCHANGED <<mouseDown, drag, times, callBacks, commits, seen>>

----------------------------------------------------------------------------
(* Events dispatched on the duty canvas *)

MouseDown ==
    \E e \in MouseEvents :
        /\ "mousedown" \in listeners
        /\ commits < MaxCommits
        /\ mousedownHandler(e)
        /\ event' = [type |-> "mousedown", m |-> <<getMouseTime(e)>>]
        /\ pressed' = IF ~mouseDown THEN <<getMouseTime(e)>> ELSE <<>>
        /\ UNCHANGED <<params, readOnly, listeners>>

MouseMove ==
    \E e \in MouseEvents :
        /\ "mousemove" \in listeners
        /\ mousemoveHandler(e)
        /\ event' = [type |-> "mousemove",
                     m |-> IF mouseDown THEN <<getMouseTime(e)>> ELSE <<>>]
        /\ UNCHANGED <<params, readOnly, listeners, pressed>>

MouseUp ==
    /\ "mouseup" \in listeners
    /\ mouseupHandler
    /\ event' = [type |-> "mouseup", m |-> <<>>]
    /\ pressed' = <<>>
    /\ UNCHANGED <<params, readOnly, listeners>>

MouseOut ==
    /\ "mouseout" \in listeners
    /\ mouseoutHandler
    /\ event' = [type |-> "mouseout", m |-> <<>>]
    /\ pressed' = IF mouseDown' THEN pressed ELSE <<>>
    /\ UNCHANGED <<params, readOnly, listeners>>

\* an event of a type the canvas has no listener for runs no handler
Unheard ==
    \E type \in EventTypes :
        /\ type \notin listeners
        /\ event' = [type |-> type, m |-> <<>>]
        /\ UNCHANGED <<params, times, readOnly, mouseDown, drag, listeners,
                       callBacks, commits, thrown, pressed, seen>>

Next == MouseDown \/ MouseMove \/ MouseUp \/ MouseOut \/ Unheard

Spec == Init /\ [][Next]_vars

\* grids built from every grid string, on which no button is ever pressed
InitConstruct == \E p \in ParamsSet : grid(p)

NextConstruct == MouseMove \/ MouseUp \/ MouseOut \/ Unheard

SpecConstruct == InitConstruct /\ [][NextConstruct]_vars

----------------------------------------------------------------------------
(* Properties *)

DutyChars == {"1", "2", "3", "4"}

\* v is one of the four duties, as a number or as its character
ValidDuty(v) ==
    \/ v.type = "number" /\ v.num \in 1..NumDuties
    \/ v.type = "string" /\ v.str \in DutyChars

\* the duty number a valid element stands for
DutyOf(v) ==
    IF v.type = "number" THEN v.num
    ELSE CHOOSE n \in 1..NumDuties : DigitChars[n + 1] = v.str

ValidGridStr(str) == Len(str) = NumSlots /\ \A i \in 1..Len(str) : str[i] \in DutyChars

DefaultTimes == [i \in 1..NumSlots |-> JSNum(1)]

\* the times array the grid was built with
BuiltTimes == constructTimesArray(gridStrOf(params))

\* C1: a gesture that begins in Idle with a pointer-down at slot a, goes
\* on with pointer-moves whose last position is slot b > a with duty d, and
\* ends with a pointer-up leaves every slot of [a, b) equal to d and fires
\* the change notification exactly once.
C1_GestureCommits ==
    [][ ( /\ event'.type = "mouseup"
          /\ pressed # <<>>
          /\ event.type \in {"mousedown", "mousemove"}
          /\ event.m # <<>>
          /\ pressed[1].min < event.m[1].min )
        => ( /\ \A i \in pressed[1].min..(event.m[1].min - 1) :
                    times'[i + 1] = JSNum(event.m[1].duty)
             /\ callBacks' = callBacks + 1 ) ]_vars

C1_Witness ==
    /\ event.type = "mouseup"
    /\ ~thrown
    /\ commits = 1
    /\ callBacks = 2
    /\ \E i \in 12..92 : times[i + 1] = JSNum(3) /\ BuiltTimes[i + 1] # JSNum(3)

\* C2 as stated: at every point the number of notifications fired equals
\* the number of commits performed.
C2_NotificationsEqualCommits == callBacks = commits

\* C2, amended: an editable grid fires the notification once when it is
\* built and then exactly once per commit, so at every point the number of
\* notifications is the number of commits plus one; pointer-down and
\* pointer-move fire none.
C2_OnePerCommitAfterConstruction ==
    /\ [](~readOnly => callBacks = commits + 1)
    /\ [][ event'.type \in {"mousedown", "mousemove"} => callBacks' = callBacks ]_vars

C2_Witness ==
    /\ ~readOnly
    /\ commits = 1
    /\ callBacks = 2
    /\ times # BuiltTimes

\* C3: in every reachable state the slot sequence has length 96 and every
\* element is a duty with ordinal in 1..4.
C3_TimesValid ==
    /\ Len(times) = NumSlots
    /\ \A i \in 1..Len(times) : ValidDuty(times[i])

\* C4: on a grid built with readOnly set, no pointer event changes a slot
\* and the change notification is never fired, at construction or later.
C4_ReadOnlyUntouched ==
    readOnly => (times = BuiltTimes /\ callBacks = 0 /\ commits = 0)

C4_Witness ==
    /\ readOnly
    /\ event.type = "mouseup"
    /\ times = BuiltTimes
    /\ ValidGridStr(gridStrOf(params))

\* C5: for a string s of 96 characters '1'..'4', building the grid from s
\* and calling toString with no edit in between gives back s; and decoding
\* the encoding of a valid sequence gives the same duties slot by slot.
C5_RoundTrip ==
    /\ ValidGridStr(gridStrOf(params)) => toString(times) = gridStrOf(params)
    /\ (\A i \in 1..Len(times) : ValidDuty(times[i]))
          => LET again == constructTimesArray(toString(times))
             IN  /\ Len(again) = Len(times)
                 /\ \A i \in 1..Len(times) :
                        ValidDuty(again[i]) /\ DutyOf(again[i]) = DutyOf(times[i])

C5_Witness ==
    /\ gridStrOf(params) = Repeat(<<"3", "1", "2", "4">>, NumSlots)
    /\ toString(times) = gridStrOf(params)
    /\ times[2] = JSStr("1")

\* C6: a grid built from a string whose length is not 96, the empty string
\* and no string included, has the default sequence of 96 OffDuty slots,
\* and building it raises no error.
C6_WrongLengthDefault ==
    Len(gridStrOf(params)) # NumSlots
        => (times = DefaultTimes /\ (event.type = "none" => ~thrown))

C6_Witness ==
    /\ params.gridStr # <<>>
    /\ Len(params.gridStr[1]) = 97
    /\ times = DefaultTimes
    /\ event.type = "none"

\* C7: a grid built from a string of 96 characters of which at least one is
\* outside '1'..'4' has the default sequence of 96 OffDuty slots.
C7_InvalidCharsDefault ==
    ( /\ Len(gridStrOf(params)) = NumSlots
      /\ \E i \in 1..NumSlots : gridStrOf(params)[i] \notin DutyChars
      /\ commits = 0 )
        => times = DefaultTimes

\* C8: while dragging with pending start s and end > 93, a pointer-leave
\* commits as a pointer-up with end 96 would: every slot of [s, 96) gets the
\* last known duty and no other slot changes, the pending range is cleared,
\* the grid is Idle again and one change notification fires.
C8_LeaveNearEdgeCommits ==
    [][ ( /\ event'.type = "mouseout"
          /\ mouseDown
          /\ "range" \in DOMAIN drag
          /\ drag.range.end > 93 )
        => ( /\ Len(times') = NumSlots
             /\ \A i \in 0..(NumSlots - 1) :
                    times'[i + 1] = IF drag.range.start <= i
                                    THEN JSNum(drag.duty) ELSE times[i + 1]
             /\ drag' = <<>>
             /\ ~mouseDown'
             /\ ~thrown'
             /\ commits' = commits + 1
             /\ callBacks' = callBacks + 1 ) ]_vars

C8_Witness ==
    /\ event.type = "mouseout"
    /\ ~mouseDown
    /\ drag = <<>>
    /\ commits = 1
    /\ callBacks = 2
    /\ times[NumSlots] = JSNum(3)
    /\ times[NumSlots - 1] # JSNum(3)

\* C9: while dragging with pending end <= 93 a pointer-leave is ignored:
\* the grid stays Dragging, the pending range, its duty and the sequence
\* are unchanged and no notification fires; a drag ends only by a
\* pointer-up or by a pointer-leave with end > 93.
C9_LeaveIgnored ==
    [][ /\ ( /\ event'.type = "mouseout"
             /\ mouseDown
             /\ "range" \in DOMAIN drag
             /\ drag.range.end <= 93 )
           => UNCHANGED <<mouseDown, drag, times, callBacks, commits>>
        /\ (mouseDown /\ ~mouseDown')
           => \/ event'.type = "mouseup"
              \/ /\ event'.type = "mouseout"
                 /\ "range" \in DOMAIN drag
                 /\ drag.range.end > 93 ]_vars

C9_Witness ==
    /\ event.type = "mouseout"
    /\ mouseDown
    /\ "range" \in DOMAIN drag
    /\ drag.range.end = 93
    /\ drag.range.start < 93

\* C10: committing a pending range whose start is not below its end (a
\* click, or a drag to the left) leaves every one of the 96 slots as it was.
C10_EmptyRangeNoOp ==
    [][ ( /\ event'.type = "mouseup"
          /\ "range" \in DOMAIN drag
          /\ drag.range.start >= drag.range.end )
        => (commits' = commits + 1 /\ drag' = <<>> /\ times' = times) ]_vars

C10_Witness ==
    /\ event.type = "mouseup"
    /\ commits = 1
    /\ ValidGridStr(gridStrOf(params))
    /\ times = BuiltTimes

\* the number of slots of [a, b) that hold duty n in t
Occupied(t, a, b, n) ==
    Cardinality({ i \in a..(b - 1) : ValidDuty(t[i + 1]) /\ DutyOf(t[i + 1]) = n })

\* the end of the range a commit writes: 96 for a pointer-leave, else the
\* pending end
CommitEnd == IF event'.type = "mouseout" THEN NumSlots ELSE drag.range.end

\* the step commits a pending range [a, b) with a < b
CommitsRange ==
    /\ commits' = commits + 1
    /\ "range" \in DOMAIN drag
    /\ drag.range.start < CommitEnd

\* C11 as stated: committing [a, b) with duty d changes the totals of
\* exactly two statuses, d rising by (b - a) / 4 hours and the one previous
\* occupant status of the range falling by (b - a) / 4 hours.
C11_ExactlyTwoTotalsChange ==
    [][ CommitsRange =>
        LET n == CommitEnd - drag.range.start
            before == getHourTotals(times)
            after == getHourTotals(times')
        IN  \E p \in (1..NumDuties) \ {drag.duty} :
                /\ after[types[drag.duty]] = before[types[drag.duty]] + n
                /\ after[types[p]] = before[types[p]] - n
                /\ \A q \in (1..NumDuties) \ {drag.duty, p} :
                       after[types[q]] = before[types[q]] ]_vars

\* C11, amended: committing [a, b) with duty d raises the total of d by a
\* quarter hour for every slot of the range that did not hold d and lowers
\* the total of every other status by a quarter hour for every slot of the
\* range it held; so when one status other than d held the whole range,
\* exactly those two totals change, by (b - a) / 4 hours each.
C11_TotalsFollowOccupants ==
    [][ CommitsRange =>
        LET a == drag.range.start
            b == CommitEnd
            before == getHourTotals(times)
            after == getHourTotals(times')
        IN  /\ \A q \in 1..NumDuties :
                   after[types[q]] =
                       before[types[q]] - Occupied(times, a, b, q)
                           + (IF q = drag.duty THEN b - a ELSE 0)
            /\ \A p \in (1..NumDuties) \ {drag.duty} :
                   Occupied(times, a, b, p) = b - a =>
                       /\ after[types[drag.duty]] = before[types[drag.duty]] + (b - a)
                       /\ after[types[p]] = before[types[p]] - (b - a)
                       /\ \A q \in (1..NumDuties) \ {drag.duty, p} :
                              after[types[q]] = before[types[q]] ]_vars

C11_Witness ==
    /\ params.gridStr = <<>>
    /\ commits = 1
    /\ getHourTotals(times) =
           [off |-> 15, sleeper |-> 0, drive |-> 81, onduty |-> 0]

\* C12: on a freshly built default grid (no grid string, no edit)
\* getHourTotals gives 24 hours off duty and 0 hours for sleeper berth,
\* driving and on duty.
C12_DefaultTotals ==
    (params.gridStr = <<>> /\ commits = 0)
        => getHourTotals(times) =
               [off |-> 4 * 24, sleeper |-> 0, drive |-> 0, onduty |-> 0]

C12_Witness ==
    /\ params.gridStr = <<>>
    /\ event.type = "none"
    /\ commits = 0
    /\ getHourTotals(times)["off"] = NumSlots

\* C13: no sequence of pointer events on an editable grid makes a handler
\* raise an error, a pointer-up with no gesture active included.
C13_NoHandlerThrows == ~thrown

\* C14: for every x on the surface, 0 <= x < width, the slot
\* k = floor(x / (width / 96)) lies in 0..95 and the left edges of slots k
\* and k + 1 enclose x: k * (width / 96) <= x < (k + 1) * (width / 96)
\* (compared after multiplying through by 96); k is the slot a pointer
\* event at x would record as the end of the pending range in this state.
C14_PixelSlotInverse ==
    \A x \in 0..(ClientWidth - 1) :
        LET k == updateDrag(drag, getMouseTime([x |-> x, y |-> 0])).range.end
        IN  /\ k \in 0..(NumSlots - 1)
            /\ slotToPixel96(k) <= NumSlots * x
            /\ NumSlots * x < slotToPixel96(k + 1)

C14_Witness ==
    /\ event.type = "mousemove"
    /\ event.m # <<>>
    /\ event.m[1].min = NumSlots - 1
    /\ "range" \in DOMAIN drag
    /\ drag.range.end = NumSlots - 1

\* C16: right after every pointer-down at position p, whatever came
\* before it, the pending range has start = end = slotAt(p) and the pending
\* duty is dutyAt(p).
C16_DownStartsRange ==
    [][ event'.type = "mousedown" =>
            /\ "range" \in DOMAIN drag'
            /\ drag'.range.start = event'.m[1].min
            /\ drag'.range.end = event'.m[1].min
            /\ drag'.duty = event'.m[1].duty ]_vars

\* C17: a pending drag range exists exactly when a gesture is active
\* (mouseDown is true); a commit leaves neither.
C17_RangeIffMouseDown ==
    /\ mouseDown <=> "range" \in DOMAIN drag
    /\ drag = <<>> \/ DOMAIN drag = {"range", "duty"}
    /\ (event.type \in {"mouseup", "mouseout"} /\ ~mouseDown) => drag = <<>>

C17_Witness ==
    /\ event.type = "mouseup"
    /\ ~thrown
    /\ commits = 1
    /\ ~mouseDown
    /\ drag = <<>>
    /\ times # BuiltTimes

\* C18: only a commit changes the slot sequence.  Pointer-down,
\* pointer-move and a pointer-leave that does not commit leave all slots as
\* they were and fire no notification; a pointer-move with no button held
\* also leaves the pending range absent; a commit of [start, end) leaves
\* every slot outside [start, end) as it was.
C18_OnlyCommitWrites ==
    [][ /\ commits' = commits => (times' = times /\ callBacks' = callBacks)
        /\ event'.type \in {"mousedown", "mousemove"} => commits' = commits
        /\ (event'.type = "mousemove" /\ ~mouseDown) => (drag' = drag /\ drag' = <<>>)
        /\ commits' # commits =>
               /\ "range" \in DOMAIN drag
               /\ Len(times') = Len(times)
               /\ \A i \in 0..(NumSlots - 1) :
                      (i < drag.range.start \/ i >= CommitEnd)
                          => times'[i + 1] = times[i + 1] ]_vars

C18_Witness ==
    /\ event.type = "mouseup"
    /\ commits = 1
    /\ ValidGridStr(gridStrOf(params))
    /\ times[13] = JSNum(2)
    /\ times[12] = BuiltTimes[12]
    /\ times[12].type = "string"
    /\ times[94] = BuiltTimes[94]

\* C20: on a grid that started from a valid sequence (the default or a
\* string of 96 characters '1'..'4') the four hour totals sum to 24 hours,
\* that is 96 quarter hours, in every reachable state.
C20_TotalsSumToDay ==
    (\A i \in 1..Len(BuiltTimes) : ValidDuty(BuiltTimes[i]))
        => LET totals == getHourTotals(times)
           IN  totals["off"] + totals["sleeper"] + totals["drive"] + totals["onduty"]
                   = 4 * 24

C20_Witness ==
    /\ ValidGridStr(gridStrOf(params))
    /\ commits = 1
    /\ getHourTotals(times) # getHourTotals(BuiltTimes)
    /\ getHourTotals(times)["onduty"] > NumSlots - 24

\* C15: the duty a gesture commits is the duty of the most recent pointer
\* position, not the duty at pointer-down: after a pointer-down, moves that
\* end at duty d1 and slot b > start, and a pointer-up, every slot of
\* [start, b) holds d1; a pointer-move never changes the range's start.
C15_LastDutyCommitted ==
    [][ /\ (event'.type = "mousemove" /\ mouseDown /\ "range" \in DOMAIN drag)
           => /\ drag'.range.start = drag.range.start
              /\ drag'.range.end = event'.m[1].min
              /\ drag'.duty = event'.m[1].duty
        /\ ( /\ event'.type = "mouseup"
             /\ event.type \in {"mousedown", "mousemove"}
             /\ event.m # <<>>
             /\ "range" \in DOMAIN drag
             /\ drag.range.start < event.m[1].min )
           => \A i \in drag.range.start..(event.m[1].min - 1) :
                  times'[i + 1] = JSNum(event.m[1].duty) ]_vars

C15_Witness ==
    /\ event.type = "mousemove"
    /\ pressed # <<>>
    /\ pressed[1].duty = 1
    /\ event.m # <<>>
    /\ event.m[1].duty = 4
    /\ drag.duty = 4
    /\ drag.range.start = pressed[1].min
    /\ drag.range.start < drag.range.end

\* C19: within a commit the change notification is called only after the
\* range was written into the sequence and the pending range was cleared:
\* when the callback runs the grid is Idle, has no pending range, and
\* toString and getHourTotals give the committed edit.
C19_CallBackAfterCommit ==
    [][ (callBacks' = callBacks + 1) =>
            /\ commits' = commits + 1
            /\ "range" \in DOMAIN drag
            /\ seen' # <<>>
            /\ ~seen'[1].mouseDown
            /\ seen'[1].drag = <<>>
            /\ seen'[1].str = toString(times')
            /\ seen'[1].totals = getHourTotals(times')
            /\ \A i \in drag.range.start..(CommitEnd - 1) :
                   seen'[1].str[i + 1] = DigitChars[drag.duty + 1] ]_vars

C19_Witness ==
    /\ callBacks = 2
    /\ commits = 1
    /\ seen # <<>>
    /\ seen[1].str = toString(times)
    /\ seen[1].str # toString(BuiltTimes)
    /\ seen[1].drag = <<>>
    /\ ~seen[1].mouseDown

====
